---- MODULE Spec2Model ----
(***************************************************************************)
(* Authentication microservice (Swappo-BE): credential store, password     *)
(* hasher, JWT token service and the request handlers of app/main.py.      *)
(*                                                                         *)
(* Time is counted in ticks; TicksPerSecond ticks make one second.  The    *)
(* JWT library stores "exp" as whole seconds and compares it with the      *)
(* whole-second clock, so the model keeps both resolutions.                *)
(*                                                                         *)
(* Spec      every handler atomic, the clock running, few register inputs  *)
(* SpecStore every handler atomic, one tick, all register inputs and salts *)
(* SpecRace  register in its two store calls, on two workers that share    *)
(*           the relational database                                       *)
(* SpecBearer as Spec, with requests that carry no or a forged token, and  *)
(*           with the test fixture that clears the in-memory store         *)
(* SpecBackends the store calls alone, made on the in-memory store and on  *)
(*           the relational table side by side                             *)
(***************************************************************************)
EXTENDS Integers, FiniteSets, Sequences, TLC

\* ------------------------------------------------------------------ bounds
TicksPerSecond == 2
MaxTime        == 6      \* last tick of the clock
AccessTtl      == 1      \* ACCESS_TOKEN_EXPIRE_MINUTES, scaled to seconds
RefreshTtl     == 2      \* REFRESH_TOKEN_EXPIRE_DAYS, scaled to seconds
MaxTokens      == 2      \* tokens the clients keep for later requests
RegisterWindow == 0      \* Register requests arrive up to this tick
MaxCleared     == 2      \* records the test fixture clears in all
MaxStored      == 2      \* create_user calls on the two backends side by side

Emails    == {"a@x.com", "b@x.com"}
Usernames == {"u1", "u2"}
Passwords == {"pw123456", "newpw1234"}
FullNames == {"None", "Test User"}
Salts     == {"s1", "s2"}
Keys      == {"k1", "k2"}
Workers   == {"w1", "w2"}

\* Register requests of the specification that lets the clock run (Spec)
Salts1 == {"s1"}
Registrations1 ==
    {[email |-> "a@x.com", username |-> "u1", password |-> "pw123456",
      full_name |-> "Test User"],
     [email |-> "b@x.com", username |-> "u2", password |-> "pw123456",
      full_name |-> "None"]}

\* New passwords of change-password requests while the clock runs
NewPasswords1 == {"newpw1234"}

\* Register requests of the specification with any header (SpecBearer)
RegistrationsBearer == {r \in Registrations1 : r.email = "a@x.com"}

\* Register requests of the specification of one tick (SpecStore)
Registrations ==
    [email : Emails, username : Usernames, password : Passwords, full_name : {"None"}]

None == [none |-> TRUE]

VARIABLES
    USE_SQL_DB,          \* main.py: DATABASE_URL is set
    SECRET_KEY,          \* auth.py: signing key of access tokens
    REFRESH_SECRET_KEY,  \* auth.py: signing key of refresh tokens
    users_db,            \* id -> user record (the users table when USE_SQL_DB)
    user_email_index,    \* email -> id (in-memory backend only)
    now,                 \* wall clock, in ticks
    issued,              \* tokens handed out and kept by clients
    last_password,       \* history: id -> plaintext last stored, and by which flow
    resp,                \* the last request's response
    presented,           \* history: the token the last request came with
    cleared,             \* history: ids of records the test fixture has cleared
    memory,              \* database.py's users_db and user_email_index (SpecBackends)
    users,               \* db_config.py's table "users", id -> row (SpecBackends)
    ret,                 \* what the last store call returned on each backend
    workers              \* register requests in flight on several workers (SpecRace)

vars == <<USE_SQL_DB, SECRET_KEY, REFRESH_SECRET_KEY, users_db, user_email_index,
          now, issued, last_password, resp, presented, cleared, memory, users, ret,
          workers>>

\* What no handler writes
backends == <<memory, users, ret>>
config == <<USE_SQL_DB, SECRET_KEY, REFRESH_SECRET_KEY, cleared, backends, workers>>
store  == <<users_db, user_email_index>>

\* ------------------------------------------------------- password hasher
\* bcrypt.hashpw: the hash string embeds the salt and a digest of (salt, password)
hashpw(password, salt) == [salt |-> salt, digest |-> <<salt, password>>]

\* bcrypt.checkpw: re-hash the plaintext with the embedded salt and compare
verify_password(plain_password, hashed_password) ==
    hashpw(plain_password, hashed_password.salt) = hashed_password

\* get_password_hash: gensalt() is the caller's random choice of salt
get_password_hash(password, salt) == hashpw(password, salt)

\* ------------------------------------------------------ credential store
Ids == DOMAIN users_db

\* uuid.uuid4(): an id no record has or has had
NewId == cleared + Cardinality(Ids) + 1

get_user_by_id(user_id) ==
    IF user_id \in Ids THEN users_db[user_id] ELSE None

\* database.py goes through the index; database_sql.py filters the table
get_user_by_email(email) ==
    IF USE_SQL_DB
    THEN IF \E i \in Ids : users_db[i].email = email
         THEN users_db[CHOOSE i \in Ids : users_db[i].email = email]
         ELSE None
    ELSE IF email \in DOMAIN user_email_index
         THEN get_user_by_id(user_email_index[email])
         ELSE None

NewUser(email, username, hashed_password, full_name) ==
    [id |-> NewId, email |-> email, username |-> username,
     hashed_password |-> hashed_password, full_name |-> full_name,
     created_at |-> now, is_active |-> TRUE]

\* db_config.py: email and username columns are unique; commit raises otherwise
IntegrityError(email, username) ==
    \E i \in Ids : users_db[i].email = email \/ users_db[i].username = username

\* Extend a function by one key (dict[k] = v)
Put(f, k, v) == [x \in DOMAIN f \cup {k} |-> IF x = k THEN v ELSE f[x]]

\* create_user that forgets the email index
create_user_index_forgotten(user) == user_email_index

\* create_user of the backend in use, when it does not raise
create_user_db(user) == Put(users_db, user.id, user)
create_user_index(user) ==
    IF USE_SQL_DB THEN user_email_index
    ELSE Put(user_email_index, user.email, user.id)

\* UserResponse(**user): the public view, without hashed_password
UserResponse(user) ==
    [id |-> user.id, email |-> user.email, username |-> user.username,
     full_name |-> user.full_name, created_at |-> user.created_at,
     is_active |-> user.is_active]

\* ------------------------------------------- the two backends, call by call
\* database.py on an explicit store m = [users_db, user_email_index]; every
\* operator gives the store after the call and what the call returns
database_get_user_by_id(m, user_id) ==
    IF user_id \in DOMAIN m.users_db THEN m.users_db[user_id] ELSE None

database_get_user_by_email(m, email) ==
    IF email \in DOMAIN m.user_email_index
    THEN database_get_user_by_id(m, m.user_email_index[email])
    ELSE None

\* create_user writes the record and the index entry without looking
database_create_user(m, user_id, email, username, hashed_password, full_name) ==
    LET user == [id |-> user_id, email |-> email, username |-> username,
                 hashed_password |-> hashed_password, full_name |-> full_name,
                 created_at |-> now, is_active |-> TRUE]
    IN  [store |-> [users_db |-> Put(m.users_db, user_id, user),
                    user_email_index |-> Put(m.user_email_index, email, user_id)],
         ret |-> user]

\* update_user_password answering True for an id it does not hold
database_update_user_password_always_true(m, user_id, hashed_password) ==
    IF user_id \in DOMAIN m.users_db
    THEN [store |-> [m EXCEPT !.users_db[user_id].hashed_password = hashed_password],
          ret |-> TRUE]
    ELSE [store |-> m, ret |-> TRUE]

database_update_user_password(m, user_id, hashed_password) ==
    IF user_id \in DOMAIN m.users_db
    THEN [store |-> [m EXCEPT !.users_db[user_id].hashed_password = hashed_password],
          ret |-> TRUE]
    ELSE [store |-> m, ret |-> FALSE]

\* deactivate_user flipping is_active
database_deactivate_user_toggle(m, user_id) ==
    IF user_id \in DOMAIN m.users_db
    THEN [store |-> [m EXCEPT !.users_db[user_id].is_active = ~@], ret |-> TRUE]
    ELSE [store |-> m, ret |-> FALSE]

database_deactivate_user(m, user_id) ==
    IF user_id \in DOMAIN m.users_db
    THEN [store |-> [m EXCEPT !.users_db[user_id].is_active = FALSE], ret |-> TRUE]
    ELSE [store |-> m, ret |-> FALSE]

\* database_sql.py on an explicit table t (id -> row of UserDB)
Raised(exception) == [raised |-> exception]

database_sql_get_user_by_id(t, user_id) ==
    IF user_id \in DOMAIN t THEN t[user_id] ELSE None

database_sql_get_user_by_email(t, email) ==
    IF \E i \in DOMAIN t : t[i].email = email
    THEN t[CHOOSE i \in DOMAIN t : t[i].email = email]
    ELSE None

\* create_user: db.add, db.commit; the commit raises IntegrityError when the
\* email or the username is taken (both columns are unique) and adds nothing
database_sql_create_user(t, user_id, email, username, hashed_password, full_name) ==
    LET row == [id |-> user_id, email |-> email, username |-> username,
                hashed_password |-> hashed_password, full_name |-> full_name,
                created_at |-> now, is_active |-> TRUE]
    IN  IF \E i \in DOMAIN t : t[i].email = email \/ t[i].username = username
        THEN [store |-> t, ret |-> Raised("IntegrityError")]
        ELSE [store |-> Put(t, user_id, row), ret |-> row]

database_sql_update_user_password(t, user_id, hashed_password) ==
    IF user_id \in DOMAIN t
    THEN [store |-> [t EXCEPT ![user_id].hashed_password = hashed_password],
          ret |-> TRUE]
    ELSE [store |-> t, ret |-> FALSE]

database_sql_deactivate_user(t, user_id) ==
    IF user_id \in DOMAIN t
    THEN [store |-> [t EXCEPT ![user_id].is_active = FALSE], ret |-> TRUE]
    ELSE [store |-> t, ret |-> FALSE]

\* ---------------------------------------------------------- token service
\* datetime.utcnow(), and jose's timegm(t.utctimetuple()): whole seconds of t
utcnow == now
timegm(t) == t \div TicksPerSecond
timedelta(seconds) == seconds * TicksPerSecond

\* jwt.encode: a datetime "exp" becomes an integer number of seconds; the
\* signature binds the claims to the key
jwt_encode(to_encode, key) ==
    [sub |-> to_encode.sub, email |-> to_encode.email, exp |-> timegm(to_encode.exp),
     type |-> to_encode.type, key |-> key]

\* create_access_token signing with the refresh key
create_access_token_wrong_key(data) ==
    jwt_encode([sub |-> data.sub, email |-> data.email,
                exp |-> utcnow + timedelta(AccessTtl), type |-> "access"],
               REFRESH_SECRET_KEY)

create_access_token(data) ==
    jwt_encode([sub |-> data.sub, email |-> data.email,
                exp |-> utcnow + timedelta(AccessTtl), type |-> "access"], SECRET_KEY)

\* create_refresh_token signing with the access key
create_refresh_token_access_key(data) ==
    jwt_encode([sub |-> data.sub, email |-> data.email,
                exp |-> utcnow + timedelta(RefreshTtl), type |-> "refresh"],
               SECRET_KEY)

create_refresh_token(data) ==
    jwt_encode([sub |-> data.sub, email |-> data.email,
                exp |-> utcnow + timedelta(RefreshTtl), type |-> "refresh"],
               REFRESH_SECRET_KEY)

\* jwt.decode with verify_exp switched off
jwt_decode_raises_no_exp(token, secret, t) == token.key # secret

\* jwt.decode at clock t: JWTError on a bad signature or when exp < whole-second clock
jwt_decode_raises(token, secret, t) ==
    token.key # secret \/ token.exp < timegm(t)

Unauthorized(detail) == [ok |-> FALSE, status |-> 401, detail |-> detail]

\* verify_token without the check of the type claim
verify_token_at_any_type(token, token_type, t) ==
    LET secret == IF token_type = "access" THEN SECRET_KEY ELSE REFRESH_SECRET_KEY
    IN  IF jwt_decode_raises(token, secret, t)
        THEN Unauthorized("Could not validate credentials")
        ELSE [ok |-> TRUE, status |-> 200, detail |-> ""]

verify_token_at(token, token_type, t) ==
    LET secret == IF token_type = "access" THEN SECRET_KEY ELSE REFRESH_SECRET_KEY
    IN  IF jwt_decode_raises(token, secret, t)
        THEN Unauthorized("Could not validate credentials")
        ELSE IF token.type # token_type
        THEN Unauthorized("Invalid token type")
        ELSE [ok |-> TRUE, status |-> 200, detail |-> ""]

verify_token(token, token_type) == verify_token_at(token, token_type, utcnow)

\* A request without an Authorization header
NoCredentials == [credentials |-> "none"]

\* get_current_user: HTTPBearer refuses a request without credentials with
\* 403; the bearer token must verify as an access token
get_current_user(token) ==
    IF token = NoCredentials
    THEN [ok |-> FALSE, status |-> 403, detail |-> "Not authenticated"]
    ELSE verify_token(token, "access")

\* ------------------------------------------------------------- handlers
Response(op, status, detail) == [op |-> op, status |-> status, detail |-> detail]

\* register without the lookup by email: every request goes on to create_user
register_unchecked(email, username, password, full_name, salt) ==
    LET user == NewUser(email, username, get_password_hash(password, salt), full_name)
    IN  IF USE_SQL_DB /\ IntegrityError(email, username)
        THEN [resp |-> Response("register", 500, "Internal Server Error"),
              users_db |-> users_db, user_email_index |-> user_email_index,
              body |-> None]
        ELSE [resp |-> Response("register", 201, ""),
              users_db |-> create_user_db(user),
              user_email_index |-> create_user_index(user),
              body |-> UserResponse(user)]

\* register: 400 on a known email, 500 when the commit of the relational
\* backend raises, 201 with the stored user otherwise
register(email, username, password, full_name, salt) ==
    LET user == NewUser(email, username, get_password_hash(password, salt), full_name)
        same == [users_db |-> users_db, user_email_index |-> user_email_index,
                 body |-> None]
    IN  IF get_user_by_email(email) # None
        THEN [resp |-> Response("register", 400, "Email already registered")] @@ same
        ELSE IF USE_SQL_DB /\ IntegrityError(email, username)
        THEN [resp |-> Response("register", 500, "Internal Server Error")] @@ same
        ELSE [resp |-> Response("register", 201, ""),
              users_db |-> create_user_db(user),
              user_email_index |-> create_user_index(user),
              body |-> UserResponse(user)]

\* login answering 404 for an unknown email
login_user_not_found(email, password) ==
    LET user == get_user_by_email(email)
        data == [sub |-> user.id, email |-> user.email]
    IN  IF user = None
        THEN [resp |-> Response("login", 404, "User not found"), tokens |-> {}]
        ELSE IF ~verify_password(password, user.hashed_password)
        THEN [resp |-> Response("login", 401, "Incorrect email or password"), tokens |-> {}]
        ELSE IF ~user.is_active
        THEN [resp |-> Response("login", 403, "Account is deactivated"), tokens |-> {}]
        ELSE [resp |-> Response("login", 200, ""),
              tokens |-> {create_access_token(data), create_refresh_token(data)}]

\* login checking is_active before the password
login_active_first(email, password) ==
    LET user == get_user_by_email(email)
        data == [sub |-> user.id, email |-> user.email]
    IN  IF user = None
        THEN [resp |-> Response("login", 401, "Incorrect email or password"), tokens |-> {}]
        ELSE IF ~user.is_active
        THEN [resp |-> Response("login", 403, "Account is deactivated"), tokens |-> {}]
        ELSE IF ~verify_password(password, user.hashed_password)
        THEN [resp |-> Response("login", 401, "Incorrect email or password"), tokens |-> {}]
        ELSE [resp |-> Response("login", 200, ""),
              tokens |-> {create_access_token(data), create_refresh_token(data)}]

\* login: lookup, password check, active check, then the token pair
login(email, password) ==
    LET user == get_user_by_email(email)
        data == [sub |-> user.id, email |-> user.email]
    IN  IF user = None
        THEN [resp |-> Response("login", 401, "Incorrect email or password"), tokens |-> {}]
        ELSE IF ~verify_password(password, user.hashed_password)
        THEN [resp |-> Response("login", 401, "Incorrect email or password"), tokens |-> {}]
        ELSE IF ~user.is_active
        THEN [resp |-> Response("login", 403, "Account is deactivated"), tokens |-> {}]
        ELSE [resp |-> Response("login", 200, ""),
              tokens |-> {create_access_token(data), create_refresh_token(data)}]

\* refresh that only checks that the user exists
refresh_token_any_user(token) ==
    LET v == verify_token(token, "refresh")
        user == get_user_by_id(token.sub)
        data == [sub |-> token.sub, email |-> token.email]
    IN  IF ~v.ok
        THEN [resp |-> Response("refresh", v.status, v.detail), tokens |-> {}]
        ELSE IF user = None
        THEN [resp |-> Response("refresh", 401, "Invalid user"), tokens |-> {}]
        ELSE [resp |-> Response("refresh", 200, ""),
              tokens |-> {create_access_token(data), create_refresh_token(data)}]

\* refresh: the token must verify as a refresh token and its user be active;
\* the new pair copies sub and email from the presented token
refresh_token(token) ==
    LET v == verify_token(token, "refresh")
        user == get_user_by_id(token.sub)
        data == [sub |-> token.sub, email |-> token.email]
    IN  IF ~v.ok
        THEN [resp |-> Response("refresh", v.status, v.detail), tokens |-> {}]
        ELSE IF user = None \/ ~user.is_active
        THEN [resp |-> Response("refresh", 401, "Invalid user"), tokens |-> {}]
        ELSE [resp |-> Response("refresh", 200, ""),
              tokens |-> {create_access_token(data), create_refresh_token(data)}]

\* /me refusing a deactivated user
get_current_user_info_active_only(token) ==
    LET v == get_current_user(token)
        user == get_user_by_id(token.sub)
    IN  IF ~v.ok
        THEN [resp |-> Response("me", v.status, v.detail), body |-> None]
        ELSE IF user = None
        THEN [resp |-> Response("me", 404, "User not found"), body |-> None]
        ELSE IF ~user.is_active
        THEN [resp |-> Response("me", 403, "Account is deactivated"), body |-> None]
        ELSE [resp |-> Response("me", 200, ""), body |-> UserResponse(user)]

\* /me
get_current_user_info(token) ==
    LET v == get_current_user(token)
        user == get_user_by_id(token.sub)
    IN  IF ~v.ok
        THEN [resp |-> Response("me", v.status, v.detail), body |-> None]
        ELSE IF user = None
        THEN [resp |-> Response("me", 404, "User not found"), body |-> None]
        ELSE [resp |-> Response("me", 200, ""), body |-> UserResponse(user)]

\* update_user_password that reports success without storing the hash
update_user_password_lost(user_id, hashed_password) == users_db

\* update_user_password of either backend
update_user_password(user_id, hashed_password) ==
    IF user_id \in Ids
    THEN [users_db EXCEPT ![user_id].hashed_password = hashed_password]
    ELSE users_db

\* deactivate_user deleting the record
deactivate_user_deletes(user_id) == [i \in Ids \ {user_id} |-> users_db[i]]

\* deactivate_user of either backend
deactivate_user(user_id) ==
    IF user_id \in Ids
    THEN [users_db EXCEPT ![user_id].is_active = FALSE]
    ELSE users_db

\* change_password looking the user up before it checks the token
change_password_store_first(token, old_password, new_password, salt) ==
    LET v == get_current_user(token)
        user == IF token = NoCredentials THEN None ELSE get_user_by_id(token.sub)
    IN  IF user = None
        THEN [resp |-> Response("change-password", 404, "User not found"),
              users_db |-> users_db]
        ELSE IF ~v.ok
        THEN [resp |-> Response("change-password", v.status, v.detail),
              users_db |-> users_db]
        ELSE IF ~verify_password(old_password, user.hashed_password)
        THEN [resp |-> Response("change-password", 400, "Incorrect password"),
              users_db |-> users_db]
        ELSE [resp |-> Response("change-password", 200, "Password changed successfully"),
              users_db |-> update_user_password(token.sub,
                                                get_password_hash(new_password, salt))]

\* change_password without the check of the old password
change_password_unchecked(token, old_password, new_password, salt) ==
    LET v == get_current_user(token)
        user == get_user_by_id(token.sub)
    IN  IF ~v.ok
        THEN [resp |-> Response("change-password", v.status, v.detail),
              users_db |-> users_db]
        ELSE IF user = None
        THEN [resp |-> Response("change-password", 404, "User not found"),
              users_db |-> users_db]
        ELSE [resp |-> Response("change-password", 200, "Password changed successfully"),
              users_db |-> update_user_password(token.sub,
                                                get_password_hash(new_password, salt))]

\* change-password: token, user, old password, then the new hash is stored
change_password(token, old_password, new_password, salt) ==
    LET v == get_current_user(token)
        user == get_user_by_id(token.sub)
    IN  IF ~v.ok
        THEN [resp |-> Response("change-password", v.status, v.detail),
              users_db |-> users_db]
        ELSE IF user = None
        THEN [resp |-> Response("change-password", 404, "User not found"),
              users_db |-> users_db]
        ELSE IF ~verify_password(old_password, user.hashed_password)
        THEN [resp |-> Response("change-password", 400, "Incorrect password"),
              users_db |-> users_db]
        ELSE [resp |-> Response("change-password", 200, "Password changed successfully"),
              users_db |-> update_user_password(token.sub,
                                                get_password_hash(new_password, salt))]

\* logout without the dependency on get_current_user
logout_unauthenticated(token) ==
    [resp |-> Response("logout", 200, "Logged out successfully")]

\* logout: the dependency on get_current_user, then a fixed message
logout(token) ==
    LET v == get_current_user(token)
    IN  IF ~v.ok
        THEN [resp |-> Response("logout", v.status, v.detail)]
        ELSE [resp |-> Response("logout", 200, "Logged out successfully")]

\* -------------------------------------------------------------- actions
\* Clients hold at most MaxTokens tokens: they add the tokens of a response
\* while there is room, and otherwise keep the old ones or take the new ones
Keep(tokens) ==
    IF Cardinality(issued \cup tokens) <= MaxTokens
    THEN {issued \cup tokens}
    ELSE {issued, tokens}

Register(email, username, password, full_name, salt) ==
    LET r == register(email, username, password, full_name, salt)
    IN  /\ now <= RegisterWindow
        /\ resp' = r.resp
        /\ users_db' = r.users_db
        /\ user_email_index' = r.user_email_index
        /\ last_password' = IF r.resp.status = 201
                            THEN Put(last_password, r.body.id, [pw |-> password, by |-> "register"])
                            ELSE last_password
        /\ presented' = None
        /\ UNCHANGED <<config, now, issued>>

Login(email, password) ==
    LET r == login(email, password)
    IN  /\ resp' = r.resp
        /\ issued' \in Keep(r.tokens)
        /\ presented' = None
        /\ UNCHANGED <<config, store, now, last_password>>

Refresh(token) ==
    LET r == refresh_token(token)
    IN  /\ resp' = r.resp
        /\ issued' \in Keep(r.tokens)
        /\ presented' = token
        /\ UNCHANGED <<config, store, now, last_password>>

Identify(token) ==
    /\ resp' = get_current_user_info(token).resp
    /\ presented' = token
    /\ UNCHANGED <<config, store, now, issued, last_password>>

ChangePassword(token, old_password, new_password, salt) ==
    LET r == change_password(token, old_password, new_password, salt)
    IN  /\ resp' = r.resp
        /\ users_db' = r.users_db
        /\ last_password' = IF r.resp.status = 200
                            THEN [last_password EXCEPT ![token.sub] =
                                      [pw |-> new_password, by |-> "change-password"]]
                            ELSE last_password
        /\ presented' = token
        /\ UNCHANGED <<config, user_email_index, now, issued>>

Logout(token) ==
    /\ resp' = logout(token).resp
    /\ presented' = token
    /\ UNCHANGED <<config, store, now, issued, last_password>>

\* database.deactivate_user, called by an operator outside the HTTP surface
Deactivate(user_id) ==
    /\ users_db' = deactivate_user(user_id)
    /\ UNCHANGED <<config, user_email_index, now, issued, last_password, resp,
                   presented>>

Tick ==
    /\ now < MaxTime
    /\ now' = now + 1
    /\ UNCHANGED <<config, store, issued, last_password, resp, presented>>

\* tests/test_auth.py clear_database: the fixture empties the in-memory store
\* between tests, in the process that keeps the keys and the clients' tokens
clear_database ==
    /\ ~USE_SQL_DB
    /\ cleared + Cardinality(Ids) <= MaxCleared
    /\ Ids # {}
    /\ users_db' = <<>>
    /\ user_email_index' = <<>>
    /\ last_password' = <<>>
    /\ cleared' = cleared + Cardinality(Ids)
    /\ UNCHANGED <<USE_SQL_DB, SECRET_KEY, REFRESH_SECRET_KEY, workers, now, issued,
                   resp, presented, backends>>

\* ---------------------------------------- register on several workers
\* Worker processes share the relational database.  Inside one process a
\* handler is a coroutine without an await and runs uninterrupted; between
\* processes the two store calls of register interleave.
Idle == [pc |-> "idle", email |-> "", username |-> "", status |-> 0]

RegisterStart(w, email, username) ==
    /\ workers[w].pc = "idle"
    /\ workers' = [workers EXCEPT ![w] =
                      [pc |-> "lookup", email |-> email, username |-> username,
                       status |-> 0]]
    /\ UNCHANGED <<USE_SQL_DB, SECRET_KEY, REFRESH_SECRET_KEY, store, now, issued,
                   last_password, resp, presented, cleared, backends>>

\* main.py 74-79: existing_user = get_user_by_email(db, email)
RegisterLookup(w) ==
    /\ workers[w].pc = "lookup"
    /\ workers' = [workers EXCEPT ![w] =
                      IF get_user_by_email(workers[w].email) # None
                      THEN [@ EXCEPT !.pc = "done", !.status = 400]
                      ELSE [@ EXCEPT !.pc = "create"]]
    /\ UNCHANGED <<USE_SQL_DB, SECRET_KEY, REFRESH_SECRET_KEY, store, now, issued,
                   last_password, resp, presented, cleared, backends>>

\* main.py 82-88 with database_sql.create_user: add, commit; the commit raises
\* on a taken email or username and nothing in register catches it
RegisterCreate(w, password, salt) ==
    LET user == NewUser(workers[w].email, workers[w].username,
                        get_password_hash(password, salt), "None")
        raised == IntegrityError(user.email, user.username)
    IN  /\ workers[w].pc = "create"
        /\ workers' = [workers EXCEPT ![w] =
                          [@ EXCEPT !.pc = "done",
                                    !.status = IF raised THEN 500 ELSE 201]]
        /\ users_db' = IF raised THEN users_db ELSE create_user_db(user)
        /\ user_email_index' = IF raised THEN user_email_index
                               ELSE create_user_index(user)
        /\ last_password' = IF raised THEN last_password
                            ELSE Put(last_password, user.id,
                                     [pw |-> password, by |-> "register"])
        /\ UNCHANGED <<USE_SQL_DB, SECRET_KEY, REFRESH_SECRET_KEY, now, issued, resp,
                       presented, cleared, backends>>

\* ------------------------------------- store calls on the two backends
\* Each step makes the same call on database.py's store and on
\* database_sql.py's table; uuid4 gives the n-th create_user call the id n
service == <<USE_SQL_DB, SECRET_KEY, REFRESH_SECRET_KEY, users_db, user_email_index,
             now, issued, last_password, resp, presented, cleared, workers>>

Returned(op, m, q) == [op |-> op, memory |-> m, sql |-> q]

CreateUser(email, username, hashed_password, full_name) ==
    LET user_id == Cardinality(DOMAIN memory.users_db) + 1
        m == database_create_user(memory, user_id, email, username,
                                  hashed_password, full_name)
        q == database_sql_create_user(users, user_id, email, username,
                                      hashed_password, full_name)
    IN  /\ Cardinality(DOMAIN memory.users_db) < MaxStored
        /\ memory' = m.store
        /\ users' = q.store
        /\ ret' = Returned("create_user", m.ret, q.ret)
        /\ UNCHANGED service

GetUserByEmail(email) ==
    /\ ret' = Returned("get_user_by_email", database_get_user_by_email(memory, email),
                       database_sql_get_user_by_email(users, email))
    /\ UNCHANGED <<service, memory, users>>

GetUserById(user_id) ==
    /\ ret' = Returned("get_user_by_id", database_get_user_by_id(memory, user_id),
                       database_sql_get_user_by_id(users, user_id))
    /\ UNCHANGED <<service, memory, users>>

UpdateUserPassword(user_id, hashed_password) ==
    LET m == database_update_user_password(memory, user_id, hashed_password)
        q == database_sql_update_user_password(users, user_id, hashed_password)
    IN  /\ memory' = m.store
        /\ users' = q.store
        /\ ret' = Returned("update_user_password", m.ret, q.ret)
        /\ UNCHANGED service

DeactivateUser(user_id) ==
    LET m == database_deactivate_user(memory, user_id)
        q == database_sql_deactivate_user(users, user_id)
    IN  /\ memory' = m.store
        /\ users' = q.store
        /\ ret' = Returned("deactivate_user", m.ret, q.ret)
        /\ UNCHANGED service

\* ------------------------------------------------------- specification
Init ==
    /\ USE_SQL_DB \in BOOLEAN
    /\ SECRET_KEY = "k1"
    /\ REFRESH_SECRET_KEY \in Keys
    /\ users_db = <<>>
    /\ user_email_index = <<>>
    /\ now = 0
    /\ issued = {}
    /\ last_password = <<>>
    /\ resp = Response("none", 0, "")
    /\ presented = None
    /\ cleared = 0
    /\ memory = [users_db |-> <<>>, user_email_index |-> <<>>]
    /\ users = <<>>
    /\ ret = [op |-> "none", memory |-> None, sql |-> None]
    /\ workers = [w \in Workers |-> Idle]

\* A token signed with a key that is not the service's
Forged ==
    {[sub |-> 1, email |-> "a@x.com", exp |-> timegm(MaxTime) + RefreshTtl + 1,
      type |-> "access", key |-> "k0"]}

\* Ids a caller may name
UserIds == 1 .. (MaxCleared + Cardinality(Emails))

\* Requests that read or write the store or the tokens, one handler per step;
\* they come with a token a client holds or with one of Headers
Requests(RegistrationSet, SaltSet, NewPasswordSet, Headers) ==
    \/ \E r \in RegistrationSet, s \in SaltSet :
          Register(r.email, r.username, r.password, r.full_name, s)
    \/ \E e \in Emails, p \in Passwords : Login(e, p)
    \/ \E t \in issued \cup (Headers \ {NoCredentials}) : Refresh(t)
    \/ \E t \in issued \cup Headers : Identify(t)
    \/ \E t \in issued \cup Headers, o \in Passwords, n \in NewPasswordSet,
          s \in SaltSet :
          ChangePassword(t, o, n, s)
    \/ \E t \in issued \cup Headers : Logout(t)
    \/ \E i \in UserIds : Deactivate(i)

Next ==
    \/ Requests(Registrations1, Salts1, NewPasswords1, {})
    \/ Tick

\* All flows, each handler atomic, with the clock running
Spec == Init /\ [][Next]_vars

\* All flows, each handler atomic, within one tick and with random salts
NextStore == Requests(Registrations, Salts, Passwords, {})

InitStore == Init /\ REFRESH_SECRET_KEY = "k2"

SpecStore == InitStore /\ [][NextStore]_vars

\* All flows with any Authorization header, the clock running, and the
\* in-memory store cleared between tests
NextBearer ==
    \/ Requests(RegistrationsBearer, Salts1, NewPasswords1, Forged \cup {NoCredentials})
    \/ Tick
    \/ clear_database

InitBearer == Init /\ REFRESH_SECRET_KEY = "k2"

SpecBearer == InitBearer /\ [][NextBearer]_vars

\* The store calls of a caller that uses the two backends side by side
Hashes == {hashpw(p, "s1") : p \in Passwords}

NextBackends ==
    \/ \E e \in Emails, u \in Usernames :
          CreateUser(e, u, hashpw("pw123456", "s1"), "None")
    \/ \E e \in Emails : GetUserByEmail(e)
    \/ \E i \in UserIds : GetUserById(i)
    \/ \E i \in UserIds, h \in Hashes : UpdateUserPassword(i, h)
    \/ \E i \in UserIds : DeactivateUser(i)

InitBackends == Init /\ USE_SQL_DB = FALSE /\ REFRESH_SECRET_KEY = "k2"

SpecBackends == InitBackends /\ [][NextBackends]_vars

\* Two workers on the relational backend, register in its two store calls
NextRace ==
    \/ \E w \in Workers, e \in Emails, u \in Usernames : RegisterStart(w, e, u)
    \/ \E w \in Workers : RegisterLookup(w)
    \/ \E w \in Workers, p \in Passwords : RegisterCreate(w, p, "s1")

InitRace == Init /\ USE_SQL_DB = TRUE

SpecRace == InitRace /\ [][NextRace]_vars

\* =============================================================== claims
EmailPresent(email) == \E i \in Ids : users_db[i].email = email

\* C1: Register with an email some user record holds answers 400 "Email
\* already registered" whatever username, password, full name (and salt) come
\* with it, and leaves users_db and user_email_index as they were.
C1_RegisterDuplicateEmail ==
    \A e \in Emails, u \in Usernames, p \in Passwords, f \in FullNames, s \in Salts :
        EmailPresent(e) =>
            LET r == register(e, u, p, f, s)
            IN  /\ r.resp = Response("register", 400, "Email already registered")
                /\ r.users_db = users_db
                /\ r.user_email_index = user_email_index

\* A second Register for a stored email has been answered
C1_Witness ==
    /\ resp.op = "register" /\ resp.status = 400
    /\ \E e \in Emails : EmailPresent(e)
    /\ Cardinality(Ids) = 1

\* C2 (as claimed): of two register requests for one email that have both
\* been answered, one got 201 and the other 400, and no two records hold
\* the email.
C2_ExactlyOneWins ==
    /\ \A w1, w2 \in Workers :
          (/\ w1 # w2
           /\ workers[w1].pc = "done" /\ workers[w2].pc = "done"
           /\ workers[w1].email = workers[w2].email)
          => {workers[w1].status, workers[w2].status} = {201, 400}
    /\ \A i, j \in Ids : users_db[i].email = users_db[j].email => i = j

\* C3: email maps to exactly one user id: ids are the keys, no two records
\* share an email, every record is found under its own email, and every
\* entry of the email index names a record with that email.
C3_EmailUnique ==
    /\ \A i \in Ids : users_db[i].id = i
    /\ \A i, j \in Ids : users_db[i].email = users_db[j].email => i = j
    /\ \A i \in Ids : get_user_by_email(users_db[i].email) = users_db[i]
    /\ \A e \in DOMAIN user_email_index :
          /\ user_email_index[e] \in Ids
          /\ users_db[user_email_index[e]].email = e
    /\ ~USE_SQL_DB => \A i \in Ids : users_db[i].email \in DOMAIN user_email_index

\* Two users are stored, one has changed the password and one is deactivated
C3_Witness ==
    /\ Cardinality(Ids) = 2
    /\ ~USE_SQL_DB
    /\ \E i \in Ids : ~users_db[i].is_active
    /\ \E i \in Ids : last_password[i].by = "change-password"
    /\ resp.op = "register" /\ resp.status = 400

\* Tokens of one kind in a token pair
OfType(tokens, type) == {t \in tokens : t.type = type}

\* C4: a user stored by Register whose password has not been changed and who
\* has not been deactivated logs in with the registered password: the
\* response holds one access and one refresh token, two different tokens;
\* /me with that access token, and with every access token clients hold that
\* has not expired, answers 200 with the public view of that user.
C4_RegisterLoginIdentify ==
    /\ \A i \in Ids :
          (last_password[i].by = "register" /\ users_db[i].is_active) =>
              LET r == login(users_db[i].email, last_password[i].pw)
              IN  /\ r.resp.status = 200
                  /\ Cardinality(r.tokens) = 2
                  /\ Cardinality(OfType(r.tokens, "access")) = 1
                  /\ Cardinality(OfType(r.tokens, "refresh")) = 1
                  /\ \A t \in OfType(r.tokens, "access") :
                        LET m == get_current_user_info(t)
                        IN  /\ m.resp.status = 200
                            /\ m.body.id = i
                            /\ m.body.email = users_db[i].email
                            /\ "hashed_password" \notin DOMAIN m.body
    /\ \A t \in OfType(issued, "access") :
          timegm(now) <= t.exp =>
              LET m == get_current_user_info(t)
              IN  /\ m.resp.status = 200
                  /\ m.body.id = t.sub
                  /\ m.body.email = t.email
                  /\ users_db[t.sub].email = t.email

\* /me has answered 200 some time after the login of a registered user
C4_Witness ==
    /\ resp.op = "me" /\ resp.status = 200
    /\ now > 0
    /\ \E t \in OfType(issued, "access") :
          /\ timegm(now) <= t.exp
          /\ last_password[t.sub].by = "register"
          /\ users_db[t.sub].is_active

\* C5: a login with a stored email and a password that is not the stored one
\* gets the very response of a login with an email no record holds: 401
\* "Incorrect email or password" and no tokens.
C5_LoginIndistinguishable ==
    \A i \in Ids, e2 \in Emails, p1, p2 \in Passwords :
        (p1 # last_password[i].pw /\ ~EmailPresent(e2)) =>
            /\ login(users_db[i].email, p1) = login(e2, p2)
            /\ login(e2, p2).resp = Response("login", 401, "Incorrect email or password")
            /\ login(e2, p2).tokens = {}

\* A login has been refused while one email is stored and the other is not
C5_Witness ==
    /\ resp.op = "login" /\ resp.status = 401
    /\ Cardinality(Ids) = 1

\* C6: login for a deactivated user issues no tokens: 403 "Account is
\* deactivated" with the stored password, 401 with any other password.
C6_InactiveLogin ==
    \A i \in Ids, p \in Passwords :
        ~users_db[i].is_active =>
            LET r == login(users_db[i].email, p)
            IN  /\ r.tokens = {}
                /\ p = last_password[i].pw =>
                      r.resp = Response("login", 403, "Account is deactivated")
                /\ p # last_password[i].pw =>
                      r.resp = Response("login", 401, "Incorrect email or password")

\* A deactivated user's login with the right password has been refused
C6_Witness ==
    /\ resp.op = "login" /\ resp.status = 403
    /\ \E i \in Ids : ~users_db[i].is_active

\* Clock values at which a token is presented
Times == 0 .. (MaxTime + (RefreshTtl + 1) * TicksPerSecond)

\* Tokens a login or a refresh issues in this state
IssuedNow ==
    UNION {login(e, p).tokens : e \in Emails, p \in Passwords}
        \cup UNION {refresh_token(t).tokens : t \in issued}

Other(type) == IF type = "access" THEN "refresh" ELSE "access"

\* C7: a token issued as one kind never verifies as the other kind, at any
\* time and whether or not the two secrets are equal; so refresh answers 401
\* to an access token and /me, change-password and logout answer 401 to a
\* refresh token, without touching the store.
C7_KindMismatchRejected ==
    /\ \A tok \in IssuedNow \cup issued, t \in Times :
          LET v == verify_token_at(tok, Other(tok.type), t)
          IN  ~v.ok /\ v.status = 401
    /\ \A tok \in OfType(IssuedNow \cup issued, "access") :
          /\ refresh_token(tok).resp.status = 401
          /\ refresh_token(tok).tokens = {}
    /\ \A tok \in OfType(IssuedNow \cup issued, "refresh") :
          /\ get_current_user_info(tok).resp.status = 401
          /\ logout(tok).resp.status = 401
          /\ \A o, n \in Passwords, s \in Salts :
                /\ change_password(tok, o, n, s).resp.status = 401
                /\ change_password(tok, o, n, s).users_db = users_db

\* With equal secrets, refresh has refused an unexpired access token
C7_Witness ==
    /\ SECRET_KEY = REFRESH_SECRET_KEY
    /\ resp = Response("refresh", 401, "Invalid token type")
    /\ \E tok \in OfType(issued, "access") : timegm(now) <= tok.exp

Ttl(type) == IF type = "access" THEN AccessTtl ELSE RefreshTtl

Accepted(tok, t) == verify_token_at(tok, tok.type, t).ok

\* C8 (as claimed): a token issued now with ttl T verifies at every time
\* strictly before now + T and is rejected at every time strictly after it.
C8_ExpiryExact ==
    \A tok \in IssuedNow, t \in Times :
        LET deadline == now + timedelta(Ttl(tok.type))
        IN  /\ t < deadline => Accepted(tok, t)
            /\ t > deadline => ~Accepted(tok, t)

\* C8 (amended): the expiry is fixed at issuance as the whole seconds of
\* issuance + ttl and is compared with the whole-second clock: the token
\* verifies at every time strictly before issuance + ttl, is rejected at every
\* time one second or more after issuance + ttl, and in between is accepted
\* exactly while the clock's second is the expiry's; tokens clients hold
\* verify now exactly when the clock's second is at most their exp.
C8_ExpiryWholeSeconds ==
    /\ \A tok \in IssuedNow, t \in Times :
          LET deadline == now + timedelta(Ttl(tok.type))
          IN  /\ tok.exp = timegm(deadline)
              /\ t < deadline => Accepted(tok, t)
              /\ t >= deadline + timedelta(1) => ~Accepted(tok, t)
              /\ Accepted(tok, t) <=> timegm(t) <= tok.exp
    /\ \A tok \in issued : verify_token(tok, tok.type).ok <=> timegm(now) <= tok.exp

\* /me has answered 401 to an access token that has expired
C8_Witness ==
    /\ resp = Response("me", 401, "Could not validate credentials")
    /\ \E tok \in OfType(issued, "access") :
          tok.exp < timegm(now) /\ ~verify_token(tok, "access").ok
    /\ \E tok \in OfType(issued, "refresh") : verify_token(tok, "refresh").ok

\* C9: refresh succeeds only for a refresh token whose user exists and is
\* active now; for a deactivated user it answers 401 and issues no tokens, and
\* a deactivated user stays deactivated, so every later refresh fails too.
C9_RefreshNeedsActiveUser ==
    /\ [](\A tok \in issued :
            LET r == refresh_token(tok)
            IN  /\ r.resp.status = 200 =>
                      /\ tok.type = "refresh"
                      /\ tok.sub \in Ids
                      /\ users_db[tok.sub].is_active
                /\ (tok.sub \in Ids /\ ~users_db[tok.sub].is_active) =>
                      /\ r.resp.status = 401
                      /\ r.tokens = {})
    /\ [][\A i \in Ids : ~users_db[i].is_active =>
              (i \in DOMAIN users_db' /\ ~users_db'[i].is_active)]_vars

\* Refresh has refused the unexpired refresh token of a user deactivated
\* after the token was issued
C9_Witness ==
    /\ resp = Response("refresh", 401, "Invalid user")
    /\ \E tok \in OfType(issued, "refresh") :
          /\ verify_token(tok, "refresh").ok
          /\ ~users_db[tok.sub].is_active

\* C10: for a user whose password was last set by ChangePassword(old, new),
\* login succeeds only with new: any other password, the old one included,
\* answers 401 "Incorrect email or password"; with new, login answers 200
\* while the user is active (and 403 once the user is deactivated).
C10_PasswordChangeTakesEffect ==
    \A i \in Ids, p \in Passwords :
        last_password[i].by = "change-password" =>
            LET r == login(users_db[i].email, p)
            IN  /\ p # last_password[i].pw =>
                      r.resp = Response("login", 401, "Incorrect email or password")
                /\ r.resp.status = 200 => p = last_password[i].pw
                /\ (p = last_password[i].pw /\ users_db[i].is_active) =>
                      (r.resp.status = 200 /\ Cardinality(r.tokens) = 2)
                /\ (p = last_password[i].pw /\ ~users_db[i].is_active) =>
                      r.resp.status = 403

\* After a change to the other password, a login has been refused
C10_Witness ==
    /\ resp = Response("login", 401, "Incorrect email or password")
    /\ Cardinality(Ids) = 2
    /\ \A i \in Ids :
          /\ last_password[i].by = "change-password"
          /\ users_db[i].is_active

\* C11: change-password with an access token that verifies and an old
\* password that is not the stored one answers 400 "Incorrect password" and
\* leaves users_db as it was, whatever new password and salt come with it;
\* the handler writes nothing else, and a login with the password stored
\* before still gets what it got: 200 with a token pair for an active user.
C11_WrongOldPassword ==
    \A tok \in issued, o \in Passwords, n \in Passwords, s \in Salts :
        (get_current_user(tok).ok /\ o # last_password[tok.sub].pw) =>
            LET r == change_password(tok, o, n, s)
                l == login(users_db[tok.sub].email, last_password[tok.sub].pw)
            IN  /\ r.resp = Response("change-password", 400, "Incorrect password")
                /\ r.users_db = users_db
                /\ verify_password(last_password[tok.sub].pw,
                                   r.users_db[tok.sub].hashed_password)
                /\ users_db[tok.sub].is_active =>
                      (l.resp.status = 200 /\ Cardinality(l.tokens) = 2)

\* change-password has been refused for an active user holding a token
C11_Witness ==
    /\ resp = Response("change-password", 400, "Incorrect password")
    /\ \E tok \in OfType(issued, "access") :
          get_current_user(tok).ok /\ users_db[tok.sub].is_active

\* C12: no revocation.  An access token issued by login or refresh verifies
\* as an access token at every clock value whose whole second is at most its
\* exp; while it has not expired, /me with it answers 200 with the public
\* view of the stored record, also when the user has since changed the
\* password or been deactivated; and no step (change-password, deactivate,
\* logout, refresh, ...) makes /me refuse a token that is unexpired after it.
C12_NoRevocation ==
    /\ [](/\ \A tok \in OfType(issued \cup IssuedNow, "access"), t \in Times :
               timegm(t) <= tok.exp => verify_token_at(tok, "access", t).ok
          /\ \A tok \in OfType(issued, "access") :
               timegm(now) <= tok.exp =>
                   LET m == get_current_user_info(tok)
                   IN  /\ get_current_user(tok).ok
                       /\ m.resp = Response("me", 200, "")
                       /\ m.body = UserResponse(users_db[tok.sub]))
    /\ [][\A tok \in OfType(issued, "access") :
              timegm(now') <= tok.exp =>
                  /\ get_current_user(tok)'.ok
                  /\ get_current_user_info(tok)'.resp.status = 200]_vars

\* /me has answered 200 for a user who, since the token was issued, changed
\* the password and was deactivated
C12_Witness ==
    /\ resp = Response("me", 200, "")
    /\ now > 0
    /\ \E tok \in OfType(issued, "access") :
          /\ timegm(now) <= tok.exp
          /\ ~users_db[tok.sub].is_active
          /\ last_password[tok.sub].by = "change-password"

\* C13: refresh does not invalidate the token it was given.  A refresh token
\* clients hold gets 200 with a new access and a new refresh token whenever
\* it has not expired and its user is active, however often it has been
\* presented before; the new refresh token gets 200 as well and the new
\* access token is accepted by /me; and no step (a refresh with that very
\* token included) makes refresh refuse a token it accepted, as long as the
\* token is unexpired and its user active after the step.
C13_RefreshKeepsPresentedToken ==
    /\ [](\A R \in OfType(issued, "refresh") :
            (timegm(now) <= R.exp /\ users_db[R.sub].is_active) =>
                LET r == refresh_token(R)
                IN  /\ r.resp = Response("refresh", 200, "")
                    /\ Cardinality(OfType(r.tokens, "access")) = 1
                    /\ Cardinality(OfType(r.tokens, "refresh")) = 1
                    /\ \A n \in OfType(r.tokens, "refresh") :
                          refresh_token(n).resp.status = 200
                    /\ \A a \in OfType(r.tokens, "access") :
                          get_current_user_info(a).resp.status = 200)
    /\ [][\A R \in OfType(issued, "refresh") :
              (/\ refresh_token(R).resp.status = 200
               /\ timegm(now') <= R.exp
               /\ users_db'[R.sub].is_active)
              => refresh_token(R)'.resp.status = 200]_vars

\* Refresh has answered 200 to a refresh token that the client still holds,
\* that is older than the one just issued and that refresh would accept again
C13_Witness ==
    /\ resp = Response("refresh", 200, "")
    /\ presented \in OfType(issued, "refresh")
    /\ refresh_token(presented).resp.status = 200
    /\ \E n \in OfType(refresh_token(presented).tokens, "refresh") :
          presented.exp < n.exp

\* Authorization headers a request may come with
AnyHeader == issued \cup Forged \cup {NoCredentials}

\* An access token signed with the service's key that has not expired
ValidAccess(t) ==
    /\ t # NoCredentials
    /\ t.key = SECRET_KEY
    /\ t.type = "access"
    /\ timegm(now) <= t.exp

\* Unauthenticated: 401, or HTTPBearer's 403 for a request without a header
Unauthenticated(r) ==
    \/ r.status = 401
    \/ r.status = 403 /\ r.detail = "Not authenticated"

\* A step that answers a logout request
LogoutStep ==
    /\ resp'.op = "logout"
    /\ resp' # resp \/ presented' # presented

\* C14: logout answers 200 exactly to a valid access token and is refused
\* as unauthenticated otherwise (no header, forged, expired or refresh
\* token); a logout step leaves users_db, user_email_index and the clients'
\* tokens as they were, and every token that verified before it, the one
\* presented included, verifies after it and gets the same answer from /me.
C14_LogoutNoEffect ==
    /\ [](\A t \in AnyHeader :
            LET r == logout(t).resp
            IN  /\ ValidAccess(t) => r = Response("logout", 200, "Logged out successfully")
                /\ ~ValidAccess(t) => Unauthenticated(r))
    /\ [][LogoutStep =>
              /\ UNCHANGED <<users_db, user_email_index, issued, last_password>>
              /\ \A t \in (issued \cup {presented'}) \ {NoCredentials} :
                    /\ \A ty \in {"access", "refresh"} :
                          verify_token(t, ty).ok => verify_token(t, ty)'.ok
                    /\ get_current_user_info(t)' = get_current_user_info(t)
                    /\ refresh_token(t)' = refresh_token(t)]_vars

\* Logout has answered 200 to an access token that the client still holds
\* and that /me still accepts
C14_Witness ==
    /\ resp = Response("logout", 200, "Logged out successfully")
    /\ presented \in OfType(issued, "access")
    /\ get_current_user_info(presented).resp.status = 200

\* A store call failed
Failed(r) == "raised" \in DOMAIN r

\* The id uuid4 gives the next create_user call
NextUserId == Cardinality(DOMAIN memory.users_db) + 1

\* C15 (as claimed): on either backend, create_user with an email some
\* record holds fails and leaves the records and the email index as they
\* were, and it returns a new user only when no record held the email.
C15_CreateConflict ==
    \A e \in Emails, u \in Usernames, h \in Hashes, f \in FullNames :
        LET m == database_create_user(memory, NextUserId, e, u, h, f)
            q == database_sql_create_user(users, NextUserId, e, u, h, f)
            inMemory == \E i \in DOMAIN memory.users_db : memory.users_db[i].email = e
            inTable == \E i \in DOMAIN users : users[i].email = e
        IN  /\ inMemory => (Failed(m.ret) /\ m.store = memory)
            /\ ~Failed(m.ret) => ~inMemory
            /\ inTable => (Failed(q.ret) /\ q.store = users)
            /\ ~Failed(q.ret) => ~inTable

\* No create_user call has been made with an email a record held
NoEmailTwice ==
    \A i, j \in DOMAIN memory.users_db :
        memory.users_db[i].email = memory.users_db[j].email => i = j

\* C16 (as claimed): after the same sequence of create_user,
\* get_user_by_email, get_user_by_id, update_user_password and
\* deactivate_user calls, none of them a create_user with a stored email,
\* the two backends have returned the same for the last call and hold the
\* same user records, also when two emails come with one username.
C16_BackendsAgree ==
    NoEmailTwice =>
        /\ ret.memory = ret.sql
        /\ memory.users_db = users

\* One step of a store, from the records before to the records after
Monotone(before, after, op) ==
    \A i \in DOMAIN before :
        /\ i \in DOMAIN after
        /\ \A k \in {"id", "email", "username", "full_name", "created_at"} :
              after[i][k] = before[i][k]
        /\ ~before[i].is_active => ~after[i].is_active
        /\ after[i].hashed_password # before[i].hashed_password
              => op = "update_user_password"
        /\ after[i].is_active # before[i].is_active => op = "deactivate_user"

\* C17: in every step of every sequence of store calls, on either backend,
\* every record stays, with its id, email, username, full name and
\* created_at; is_active never goes from false to true; hashed_password
\* changes only in an update_user_password call (the one change-password
\* makes) and is_active only in a deactivate_user call.
C17_RecordsMonotone ==
    [][/\ Monotone(memory.users_db, memory'.users_db, ret'.op)
       /\ Monotone(users, users', ret'.op)
       /\ \A e \in DOMAIN memory.user_email_index :
             e \in DOMAIN memory'.user_email_index]_vars

\* Two records are stored, one with a changed hash, and a deactivated record
\* has just been deactivated once more
C17_Witness ==
    /\ ret.op = "deactivate_user"
    /\ ret.memory = TRUE /\ ret.sql = TRUE
    /\ Cardinality(DOMAIN users) = 2
    /\ \E i \in DOMAIN users : ~users[i].is_active /\ ~memory.users_db[i].is_active
    /\ \E i \in DOMAIN users : users[i].hashed_password = hashpw("newpw1234", "s1")

\* after differs from before at most in one field of the record user_id
OnlyField(before, after, user_id, field) ==
    /\ DOMAIN after = DOMAIN before
    /\ \A j \in DOMAIN before :
          /\ DOMAIN after[j] = DOMAIN before[j]
          /\ \A k \in DOMAIN before[j] :
                (j # user_id \/ k # field) => after[j][k] = before[j][k]

\* C18: on either backend, update_user_password(id, h) and
\* deactivate_user(id) return False and leave the store as it was when no
\* record has the id; when one has, they return True, set that record's
\* hashed_password to h (its is_active to False) and leave every other
\* field, every other record and the email index as they were.
C18_UpdateFrame ==
    \A i \in UserIds, h \in Hashes :
        LET mu == database_update_user_password(memory, i, h)
            md == database_deactivate_user(memory, i)
            qu == database_sql_update_user_password(users, i, h)
            qd == database_sql_deactivate_user(users, i)
        IN  /\ i \notin DOMAIN memory.users_db =>
                  /\ mu = [store |-> memory, ret |-> FALSE]
                  /\ md = [store |-> memory, ret |-> FALSE]
            /\ i \in DOMAIN memory.users_db =>
                  /\ mu.ret = TRUE /\ md.ret = TRUE
                  /\ mu.store.users_db[i].hashed_password = h
                  /\ md.store.users_db[i].is_active = FALSE
                  /\ OnlyField(memory.users_db, mu.store.users_db, i, "hashed_password")
                  /\ OnlyField(memory.users_db, md.store.users_db, i, "is_active")
                  /\ mu.store.user_email_index = memory.user_email_index
                  /\ md.store.user_email_index = memory.user_email_index
            /\ i \notin DOMAIN users =>
                  /\ qu = [store |-> users, ret |-> FALSE]
                  /\ qd = [store |-> users, ret |-> FALSE]
            /\ i \in DOMAIN users =>
                  /\ qu.ret = TRUE /\ qd.ret = TRUE
                  /\ qu.store[i].hashed_password = h
                  /\ qd.store[i].is_active = FALSE
                  /\ OnlyField(users, qu.store, i, "hashed_password")
                  /\ OnlyField(users, qd.store, i, "is_active")

\* With two records stored and one hash changed by an earlier call, a call
\* for an id no record has has returned False on both backends
C18_Witness ==
    /\ ret.op \in {"update_user_password", "deactivate_user"}
    /\ ret.memory = FALSE /\ ret.sql = FALSE
    /\ Cardinality(DOMAIN users) = 2
    /\ \E i \in DOMAIN users :
          /\ users[i].hashed_password = hashpw("newpw1234", "s1")
          /\ memory.users_db[i].hashed_password = hashpw("newpw1234", "s1")

\* C19: /me and change-password check the token before the store.  Without
\* a header, or with a forged, expired or refresh token, both are refused as
\* unauthenticated whatever users_db holds (nothing, the token's user, a
\* deactivated user, other users); with a valid access token whose sub has
\* no record both answer 404 "User not found"; in all these cases
\* change-password leaves users_db as it was, whatever passwords it is given.
C19_TokenBeforeStore ==
    \A t \in AnyHeader :
        LET m == get_current_user_info(t)
        IN  /\ ~ValidAccess(t) =>
                  /\ Unauthenticated(m.resp)
                  /\ \A o \in Passwords, n \in Passwords, s \in Salts :
                        LET c == change_password(t, o, n, s)
                        IN  Unauthenticated(c.resp) /\ c.users_db = users_db
            /\ (ValidAccess(t) /\ t.sub \notin Ids) =>
                  /\ m.resp = Response("me", 404, "User not found")
                  /\ m.body = None
                  /\ \A o \in Passwords, n \in Passwords, s \in Salts :
                        LET c == change_password(t, o, n, s)
                        IN  /\ c.resp = Response("change-password", 404, "User not found")
                            /\ c.users_db = users_db

\* change-password has answered 404 to a valid access token whose user was
\* cleared from the store, while the store holds a record again
C19_Witness ==
    /\ resp = Response("change-password", 404, "User not found")
    /\ presented \in OfType(issued, "access")
    /\ ValidAccess(presented)
    /\ presented.sub \notin Ids
    /\ Ids # {}

\* C20: every token clients hold, and every token a login or a refresh would
\* issue now, has a sub that is the id of a stored record and an email equal
\* to that record's email; the pair a refresh issues carries the sub and the
\* email of the presented token, which are those of the re-fetched user.
C20_TokenSubjectStored ==
    /\ \A tok \in issued \cup IssuedNow :
          /\ tok.sub \in Ids
          /\ users_db[tok.sub].id = tok.sub
          /\ users_db[tok.sub].email = tok.email
    /\ \A R \in issued :
          LET r == refresh_token(R)
          IN  r.resp.status = 200 =>
                  \A n \in r.tokens :
                      /\ n.sub = R.sub /\ n.email = R.email
                      /\ get_user_by_id(R.sub).id = n.sub
                      /\ get_user_by_id(R.sub).email = n.email

\* A refresh has issued a pair from an older refresh token, with two users
\* stored and the clients holding the new pair
C20_Witness ==
    /\ resp = Response("refresh", 200, "")
    /\ Cardinality(Ids) = 2
    /\ presented \notin issued
    /\ \E n \in OfType(issued, "refresh") :
          /\ n.sub = presented.sub
          /\ presented.exp < n.exp
====
